---- MODULE Spec2Model ----
(***************************************************************************)
(* Model of kuma_bot (src/main.go): the ingestion / dedup / aggregation    *)
(* pipeline run by handleKumaBotRequest, the URL ledger kept in the blob   *)
(* store, and the posting service's timeline and pinned set.               *)
(*                                                                         *)
(* Time is a count of instants, DayLength instants to a day.               *)
(***************************************************************************)
EXTENDS Integers, Sequences, FiniteSets, TLC

\* ---------------------------------------------------------------- constants
MaxPages == 3
PostedURLRetentionDays == 30
PinLimit == 5

\* Text is a sequence of Unicode code points; Go compares strings bytewise,
\* which for UTF-8 is the lexicographic order of the code points.
Hokkaido == <<21271, 28023, 36947>>
Aomori == <<38738, 26862, 30476>>
Akita == <<31179, 30000, 30476>>
Tokyo == <<26481, 20140, 37117>>
Kyoto == <<20140, 37117, 24220>>
\* the fixed list, in declaration order (five of the 47 names)
prefectures == <<Hokkaido, Aomori, Akita, Tokyo, Kyoto>>
OtherPrefecture == <<12381, 12398, 20182>>
Space == 32

\* ------------------------------------------------------------------- bounds
MaxRuns == 2
MaxTicks == 2
MaxFaults == 2
MaxCount == 3
MaxKeywords == 2
NumFeeds == 2
InitPinned == 4

\* instants per day: instant t is midnight (UTC+9) iff t % DayLength = 0
DayLength == 4
RetentionSpan == PostedURLRetentionDays * DayLength
ClockSteps == {1, RetentionSpan}

\* time.Time{} : the zero instant, before every instant of the model
ZeroTime == 0 - 1000

\* ------------------------------------------------------------ generic helpers
Range(s) == {s[i] : i \in 1..Len(s)}

SeqsUpTo(S, n) == UNION {[1..k -> S] : k \in 0..n}

RECURSIVE SelectIdx(_, _)
\* the subsequence of s at the positions in idx, order kept
SelectIdx(s, idx) ==
  IF s = <<>> THEN <<>>
  ELSE LET rest == SelectIdx(Tail(s), {i - 1 : i \in idx \ {1}})
       IN IF 1 \in idx THEN <<Head(s)>> \o rest ELSE rest

Perms(n) == {p \in [1..n -> 1..n] : \A i, j \in 1..n : i # j => p[i] # p[j]}

\* ------------------------------------------------------------ text helpers
\* strings.Contains(text, kw)
Contains(text, kw) ==
  \E i \in 0..(Len(text) - Len(kw)) : SubSeq(text, i + 1, i + Len(kw)) = kw

RECURSIVE TrimLeft(_)
TrimLeft(t) == IF t # <<>> /\ Head(t) = Space THEN TrimLeft(Tail(t)) ELSE t

RECURSIVE TrimRight(_)
TrimRight(t) ==
  IF t # <<>> /\ t[Len(t)] = Space THEN TrimRight(SubSeq(t, 1, Len(t) - 1)) ELSE t

\* strings.TrimSpace
TrimSpace(t) == TrimRight(TrimLeft(t))

RECURSIVE StringLess(_, _)
\* a < b on Go strings
StringLess(a, b) ==
  IF b = <<>> THEN FALSE
  ELSE IF a = <<>> THEN TRUE
  ELSE IF Head(a) # Head(b) THEN Head(a) < Head(b)
  ELSE StringLess(Tail(a), Tail(b))

\* ------------------------------------------------------------ URL ledger
RECURSIVE CleanupLoopKeepBoundary(_, _)
CleanupLoopKeepBoundary(existingURLs, cutoffTime) ==
  IF existingURLs = <<>> THEN <<>>
  ELSE (IF Head(existingURLs).postedAt >= cutoffTime THEN <<Head(existingURLs)>> ELSE <<>>)
       \o CleanupLoopKeepBoundary(Tail(existingURLs), cutoffTime)

RECURSIVE CleanupLoop(_, _)
\* the loop of cleanupOldURLs: append posted when posted.PostedAt.After(cutoffTime)
CleanupLoop(existingURLs, cutoffTime) ==
  IF existingURLs = <<>> THEN <<>>
  ELSE (IF Head(existingURLs).postedAt > cutoffTime THEN <<Head(existingURLs)>> ELSE <<>>)
       \o CleanupLoop(Tail(existingURLs), cutoffTime)

\* cleanupOldURLs, with time.Now() passed as t
cleanupOldURLs(existingURLs, t) == CleanupLoop(existingURLs, t - RetentionSpan)

\* --------------------------------------------------------- relevance filter
RECURSIVE AnyKeyword(_, _)
\* the loop "for _, keyword := range kws { if strings.Contains(..) {return} }"
AnyKeyword(text, kws) ==
  IF kws = <<>> THEN FALSE
  ELSE IF Contains(text, Head(kws)) THEN TRUE
  ELSE AnyKeyword(text, Tail(kws))

isBearRelatedNewsIncludeFirst(title, description, cfg) ==
  LET text == title \o <<Space>> \o description
  IN IF AnyKeyword(text, cfg.include) THEN TRUE
     ELSE FALSE

isBearRelatedNews(title, description, cfg) ==
  LET text == title \o <<Space>> \o description
  IN IF AnyKeyword(text, cfg.exclude) THEN FALSE
     ELSE IF AnyKeyword(text, cfg.include) THEN TRUE
     ELSE FALSE

\* ------------------------------------------------------ prefecture aggregator
RECURSIVE ExtractLoopLastMatch(_, _)
ExtractLoopLastMatch(text, names) ==
  IF names = <<>> THEN <<>>
  ELSE LET rest == ExtractLoopLastMatch(text, Tail(names))
       IN IF rest # <<>> THEN rest
          ELSE IF Contains(text, Head(names)) THEN Head(names) ELSE <<>>

RECURSIVE ExtractLoop(_, _)
ExtractLoop(text, names) ==
  IF names = <<>> THEN <<>>
  ELSE IF Contains(text, Head(names)) THEN Head(names)
  ELSE ExtractLoop(text, Tail(names))

\* extractPrefecture: first name of the list contained in text, "" if none
extractPrefecture(text) == ExtractLoop(text, prefectures)

RECURSIVE TallyLoop(_, _)
\* the counting loop of aggregatePrefectures over the toots' content;
\* content.marker says whether prefecturePattern matches, content.location is
\* the trimmed capture group
TallyLoop(toots, acc) ==
  IF toots = <<>> THEN acc
  ELSE LET c == Head(toots).content
           prefecture == extractPrefecture(c.location)
       IN TallyLoop(Tail(toots),
            IF ~c.marker THEN acc
            ELSE IF prefecture # <<>>
              THEN [acc EXCEPT !.counts[prefecture] = @ + 1]
              ELSE [acc EXCEPT !.otherCount = @ + 1])

Tally(toots) ==
  TallyLoop(toots, [counts |-> [p \in Range(prefectures) |-> 0], otherCount |-> 0])

CountLessNoTieBreak(a, b) == a.count > b.count

\* the comparison function of the sort.Slice call in aggregatePrefectures
CountLess(a, b) ==
  IF a.count = b.count THEN StringLess(a.prefecture, b.prefecture)
  ELSE a.count > b.count

RECURSIVE InsertSorted(_, _)
InsertSorted(x, s) ==
  IF s = <<>> THEN <<x>>
  ELSE IF CountLess(x, Head(s)) THEN <<x>> \o s
  ELSE <<Head(s)>> \o InsertSorted(x, Tail(s))

RECURSIVE SortEntries(_)
\* sort.Slice over the entries of the count map (keys distinct, so the
\* order that CountLess defines is total and the result does not depend on
\* the map's iteration order)
SortEntries(S) ==
  IF S = {} THEN <<>>
  ELSE LET x == CHOOSE y \in S : TRUE
       IN InsertSorted(x, SortEntries(S \ {x}))

RankedEntries(tally) ==
  {[prefecture |-> p, count |-> tally.counts[p]] :
     p \in {q \in DOMAIN tally.counts : tally.counts[q] > 0}}

RankResultsOtherSorted(tally) ==
  SortEntries(RankedEntries(tally) \cup
    (IF tally.otherCount > 0
       THEN {[prefecture |-> OtherPrefecture, count |-> tally.otherCount]} ELSE {}))

\* the part of aggregatePrefectures after the counting loop
RankResults(tally) ==
  LET results == SortEntries(RankedEntries(tally))
  IN IF tally.otherCount > 0
       THEN Append(results, [prefecture |-> OtherPrefecture, count |-> tally.otherCount])
       ELSE results

aggregatePrefectures(toots) == RankResults(Tally(toots))

RECURSIVE FormatLoop(_, _, _, _)
FormatLoop(stats, lines, currentRank, prevCount) ==
  IF stats = <<>> THEN lines
  ELSE LET stat == Head(stats) IN
    IF stat.prefecture = OtherPrefecture
      THEN FormatLoop(Tail(stats),
             Append(lines, [numbered |-> FALSE, rank |-> 0,
                            prefecture |-> stat.prefecture, count |-> stat.count]),
             currentRank, prevCount)
      ELSE LET rank == IF prevCount # -1 /\ stat.count < prevCount
                         THEN Len(lines) + 1 ELSE currentRank
           IN FormatLoop(Tail(stats),
                Append(lines, [numbered |-> TRUE, rank |-> rank,
                               prefecture |-> stat.prefecture, count |-> stat.count]),
                rank, stat.count)

\* formatPrefectureStats: one record per printed line ("%2d. %s：%d件" with its
\* rank, or the unnumbered "    %s：%d件")
formatPrefectureStats(stats) == FormatLoop(stats, <<>>, 1, -1)

\* ----------------------------------------------------------- the environment
KwBear == <<107>>
KwExcluded == <<120>>
\* the RSS configuration document in the blob store
RuleSet == [include |-> <<KwBear>>, exclude |-> <<KwExcluded>>,
            sources |-> [i \in 1..NumFeeds |-> i]]
NoConfig == [include |-> <<>>, exclude |-> <<>>, sources |-> <<>>]

\* listing items of the scraped source, as parseArticles returns them
ArtA == [url |-> "u1", publishedAt |-> 2, description |-> Akita, postedAt |-> ZeroTime]
ArtB == [url |-> "u2", publishedAt |-> 1, description |-> <<Space>>, postedAt |-> ZeroTime]
\* the listings of the scraped source that the model starts from: one url on
\* two pages; an empty second page; an empty first page
Sites == { <<<<ArtA>>, <<ArtA>>, <<ArtB>>>>,
           <<<<ArtB>>, <<>>, <<ArtA>>>>,
           <<<<>>, <<ArtA>>, <<>>>> }

\* feed entries (gofeed.Item): link, title, description, PublishedParsed
ItemA == [link |-> "u1", title |-> KwBear, description |-> <<>>, published |-> 3]
ItemC == [link |-> "u3", title |-> <<Space>> \o KwBear, description |-> KwBear, published |-> 0]
ItemX == [link |-> "u2", title |-> KwBear, description |-> KwExcluded, published |-> 1]
\* the feed documents that the model starts from: a link that the scraped
\* source lists too and an excluded entry; one link in every feed
FeedSets == { [i \in 1..NumFeeds |-> IF i = 1 THEN <<ItemA>> ELSE <<ItemX, ItemC>>],
              [i \in 1..NumFeeds |-> <<ItemC>>] }

LinkGlyph == 128279
Ellipsis == 8230
Newline == 10
RankingHeader == <<37117, 36947, 24220, 30476>>

DryRunID == 0

VARIABLES
  now,              \* time.Now()
  ticks,            \* number of clock advances so far
  faults,           \* number of failed calls on external services so far
  dryRun,           \* DRY_RUN = "1"
  forceSummary,     \* KUMA_FORCE_SUMMARY is set
  store,            \* the ledger document in the blob store
  site,             \* scraped source: page number -> listed articles
  feeds,            \* feed documents, by index of rss_sources
  timeline,         \* the account's statuses, newest first
  pinned,           \* ids of the account's pinned statuses
  rssConfigOnce,    \* rssConfigOnce has run
  rssConfig,        \* the cached rule set
  rssConfigErr,     \* the cached load error
  runs,             \* invocations started
  pc,               \* position of the current invocation
  summary,          \* runPrefectureSummary: [since, toots]
  newStatusID,      \* id returned by the summary publish
  pinnedStatuses,   \* result of GetAccountPinnedStatuses
  existingURLs,     \* pruned ledger of this invocation
  existingURLMap,   \* dedup set
  page,             \* loop variable of processKumaNews
  allArticles,      \* accumulated articles (scrape loop, then feed loop)
  kumaArticles,     \* result of processKumaNews
  feedIdx,          \* loop variable of processRSSNews
  queue,            \* articles still to post, kuma first, then rss
  successfullyPosted,
  calls,            \* calls on external services made by this invocation
  saved,            \* documents handed to savePostedURLs by this invocation
  pruneAt,          \* instant read by cleanupOldURLs in this invocation
  result,           \* outcome of the invocation
  prev,             \* record of the previous invocation
  input,            \* arguments of a function applied on its own
  output            \* its result

runVars == <<summary, newStatusID, pinnedStatuses, existingURLs, existingURLMap,
             page, allArticles, kumaArticles, feedIdx, queue, successfullyPosted,
             calls, saved, pruneAt, result>>
extVars == <<store, site, feeds, timeline, pinned>>
vars == <<now, ticks, faults, dryRun, forceSummary, store, site, feeds, timeline, pinned,
          rssConfigOnce, rssConfig, rssConfigErr, runs, pc,
          summary, newStatusID, pinnedStatuses, existingURLs, existingURLMap,
          page, allArticles, kumaArticles, feedIdx, queue, successfullyPosted,
          calls, saved, pruneAt, result, prev, input, output>>

NoResult == [status |-> "none", cause |-> "none"]
NoSummary == [since |-> 0, toots |-> <<>>]
NoPrev == [done |-> FALSE, clean |-> FALSE, pruneAt |-> 0, fetches |-> <<>>,
           failed |-> {}, posted |-> 0, store |-> <<>>, ledgerOK |-> TRUE]

\* summaries posted and pinned before the first invocation of the model
OldSummary(i, k) ==
  [id |-> i + k, createdAt |-> (i - 10) * DayLength + 1, kind |-> "summary", url |-> "",
   content |-> [marker |-> TRUE, location |-> RankingHeader],
   total |-> 0, lines |-> <<>>]

\* a ledger entry written by an earlier invocation, one instant short of
\* the end of its retention when the model starts, and its post
OldEntry == [ArtA EXCEPT !.postedAt = DayLength - RetentionSpan]
OldPost ==
  [id |-> 1, createdAt |-> OldEntry.postedAt, kind |-> "kuma",
   url |-> OldEntry.url,
   content |-> [marker |-> TRUE, location |-> TrimSpace(OldEntry.description)],
   total |-> 0, lines |-> <<>>]

NotApplied == [done |-> FALSE, value |-> <<>>]

RunInit ==
  /\ summary = NoSummary
  /\ newStatusID = DryRunID
  /\ pinnedStatuses = {}
  /\ existingURLs = <<>>
  /\ existingURLMap = {}
  /\ page = 1
  /\ allArticles = <<>>
  /\ kumaArticles = <<>>
  /\ feedIdx = 1
  /\ queue = <<>>
  /\ successfullyPosted = <<>>
  /\ calls = <<>>
  /\ saved = <<>>
  /\ pruneAt = 0
  /\ result = NoResult

\* the state before the first invocation
StartStateWith(dry, force, ledger, listing, docs, n) ==
  /\ now = DayLength - 1
  /\ ticks = 0
  /\ faults = 0
  /\ dryRun = dry
  /\ forceSummary = force
  /\ store = ledger
  /\ site = listing
  /\ feeds = docs
  /\ LET k == Len(ledger)
     IN /\ timeline = [i \in 1..n |-> OldSummary(n + 1 - i, k)]
                        \o (IF k = 0 THEN <<>> ELSE <<OldPost>>)
        /\ pinned = {i + k : i \in 1..n}
  /\ rssConfigOnce = FALSE
  /\ rssConfig = NoConfig
  /\ rssConfigErr = FALSE
  /\ runs = 0
  /\ pc = "idle"
  /\ prev = NoPrev
  /\ RunInit

\* the account starts with InitPinned pinned summaries
StartState(dry, force, ledger, listing, docs) ==
  StartStateWith(dry, force, ledger, listing, docs, InitPinned)

Init ==
  /\ \E dry \in BOOLEAN, force \in BOOLEAN, ledger \in {<<>>, <<OldEntry>>},
        listing \in Sites, docs \in FeedSets :
       StartState(dry, force, ledger, listing, docs)
  /\ input = <<>>
  /\ output = NotApplied

\* a call on an external service: arg names an article url, id a status
Call(op, arg, ok) == [op |-> op, arg |-> arg, id |-> 0, ok |-> ok]
CallID(op, id, ok) == [op |-> op, arg |-> "", id |-> id, ok |-> ok]

\* outcomes of a call on an external service: success, or failure while the
\* model's budget of failures lasts
Outcomes == IF faults < MaxFaults THEN BOOLEAN ELSE {TRUE}
Fault(ok) == faults' = IF ok THEN faults ELSE faults + 1

FinishSwallowError(status, cause) ==
  /\ pc' = "done"
  /\ result' = [status |-> "ok", cause |-> cause]

\* the invocation returns: nil ("ok"), an error, or a panic
Finish(status, cause) ==
  /\ pc' = "done"
  /\ result' = [status |-> status, cause |-> cause]

\* ------------------------------------------------------- handleKumaBotRequest
\* the trigger invokes the handler
Invoke ==
  /\ pc = "idle"
  /\ runs < MaxRuns
  /\ runs' = runs + 1
  /\ pc' = "loadConfig"
  /\ UNCHANGED <<input, output, now, ticks, faults, dryRun, forceSummary, extVars, rssConfigOnce, rssConfig,
                 rssConfigErr, runVars, prev>>

\* loadConfig
LoadConfig ==
  /\ pc = "loadConfig"
  /\ \E ok \in Outcomes :
       /\ Fault(ok)
       /\ IF ok THEN pc' = "loadRSSConfig" /\ UNCHANGED result
          ELSE Finish("error", "config")
  /\ UNCHANGED <<input, output, now, ticks, dryRun, forceSummary, extVars, rssConfigOnce, rssConfig,
                 rssConfigErr, runs, summary, newStatusID, pinnedStatuses,
                 existingURLs, existingURLMap, page, allArticles, kumaArticles,
                 feedIdx, queue, successfullyPosted, calls, saved, pruneAt, prev>>

\* isMidnightJST
isMidnightJST(t) == t % DayLength = 0

LoadRSSConfigEveryTime ==
  /\ pc = "loadRSSConfig"
  /\ IF FALSE
       THEN UNCHANGED <<rssConfigOnce, rssConfig, rssConfigErr, calls, faults>>
       ELSE \E ok \in Outcomes :
              /\ Fault(ok)
              /\ rssConfigOnce' = TRUE
              /\ rssConfig' = IF ok THEN RuleSet ELSE rssConfig
              /\ rssConfigErr' = ~ok
              /\ calls' = Append(calls, Call("getRSSConfig", "", ok))
  /\ IF rssConfigErr'
       THEN Finish("error", "rssConfig")
       ELSE /\ UNCHANGED result
            /\ pc' = IF isMidnightJST(now) \/ forceSummary THEN "fetchRecentToots"
                    ELSE "loadPostedURLs"
  /\ UNCHANGED <<input, output, now, ticks, dryRun, forceSummary, extVars, runs, summary, newStatusID,
                 pinnedStatuses, existingURLs, existingURLMap, page, allArticles,
                 kumaArticles, feedIdx, queue, successfullyPosted, saved,
                 pruneAt, prev>>

\* loadRSSConfig (sync.Once), then the branch on isMidnightJST / KUMA_FORCE_SUMMARY
LoadRSSConfig ==
  /\ pc = "loadRSSConfig"
  /\ IF rssConfigOnce
       THEN UNCHANGED <<rssConfigOnce, rssConfig, rssConfigErr, calls, faults>>
       ELSE \E ok \in Outcomes :
              /\ Fault(ok)
              /\ rssConfigOnce' = TRUE
              /\ rssConfig' = IF ok THEN RuleSet ELSE rssConfig
              /\ rssConfigErr' = ~ok
              /\ calls' = Append(calls, Call("getRSSConfig", "", ok))
  /\ IF rssConfigErr'
       THEN Finish("error", "rssConfig")
       ELSE /\ UNCHANGED result
            /\ pc' = IF isMidnightJST(now) \/ forceSummary THEN "fetchRecentToots"
                    ELSE "loadPostedURLs"
  /\ UNCHANGED <<input, output, now, ticks, dryRun, forceSummary, extVars, runs, summary, newStatusID,
                 pinnedStatuses, existingURLs, existingURLMap, page, allArticles,
                 kumaArticles, feedIdx, queue, successfullyPosted, saved,
                 pruneAt, prev>>

\* ---------------------------------------------------------- runPrefectureSummary
\* yesterday: 00:00 of the previous day
Yesterday(t) == ((t \div DayLength) - 1) * DayLength

RECURSIVE TakeAfterInclusive(_, _)
TakeAfterInclusive(toots, since) ==
  IF toots = <<>> THEN <<>>
  ELSE IF Head(toots).createdAt >= since
    THEN <<Head(toots)>> \o TakeAfterInclusive(Tail(toots), since)
    ELSE <<>>

RECURSIVE TakeAfter(_, _)
\* the loop of fetchRecentToots over the newest-first statuses: collect
\* until the first status not created after since
TakeAfter(toots, since) ==
  IF toots = <<>> THEN <<>>
  ELSE IF Head(toots).createdAt > since
    THEN <<Head(toots)>> \o TakeAfter(Tail(toots), since)
    ELSE <<>>

AfterSummaryErrorContinue ==
  /\ pc' = "loadPostedURLs"
  /\ UNCHANGED result

\* handleKumaBotRequest when runPrefectureSummary returned an error: the
\* error is returned, ingestion does not start
AfterSummaryError == Finish("error", "summary")

\* fetchRecentToots: account lookup, then the status pages
FetchRecentToots ==
  /\ pc = "fetchRecentToots"
  /\ \E outcome \in {o \in {"ok", "accountFail", "statusesFail"} :
                        o = "ok" \/ FALSE \in Outcomes} :
       /\ Fault(outcome = "ok")
       /\ calls' = calls \o
            (IF outcome = "accountFail" THEN <<Call("account", "", FALSE)>>
             ELSE <<Call("account", "", TRUE), Call("statuses", "", outcome = "ok")>>)
       /\ IF outcome = "ok"
            THEN /\ summary' = [since |-> Yesterday(now),
                                toots |-> TakeAfter(timeline, Yesterday(now))]
                 /\ pc' = "postSummary"
                 /\ UNCHANGED result
            ELSE /\ AfterSummaryError
                 /\ UNCHANGED summary
  /\ UNCHANGED <<input, output, now, ticks, dryRun, forceSummary, extVars, rssConfigOnce, rssConfig,
                 rssConfigErr, runs, newStatusID, pinnedStatuses,
                 existingURLs, existingURLMap, page, allArticles, kumaArticles,
                 feedIdx, queue, successfullyPosted, saved, pruneAt, prev>>

NextID == Len(timeline) + 1

\* aggregatePrefectures and the first half of postPrefectureSummary:
\* render and publish the summary (postToMastodonWithContent)
PostSummary ==
  /\ pc = "postSummary"
  /\ LET stats == aggregatePrefectures(summary.toots)
         status == [id |-> NextID, createdAt |-> now, kind |-> "summary", url |-> "",
                    content |-> [marker |-> TRUE, location |-> RankingHeader],
                    total |-> Len(summary.toots),
                    lines |-> formatPrefectureStats(stats)]
     IN IF dryRun
          THEN /\ newStatusID' = DryRunID
               /\ pc' = "pinAccount"
               /\ UNCHANGED <<timeline, calls, result, faults>>
          ELSE \E ok \in Outcomes :
                 /\ Fault(ok)
                 /\ calls' = Append(calls, Call("publish", "summary", ok))
                 /\ IF ok
                      THEN /\ timeline' = <<status>> \o timeline
                           /\ newStatusID' = status.id
                           /\ pc' = "pinAccount"
                           /\ UNCHANGED result
                      ELSE /\ AfterSummaryError
                           /\ UNCHANGED <<timeline, newStatusID>>
  /\ UNCHANGED <<input, output, now, ticks, dryRun, forceSummary, store, site, feeds, pinned, rssConfigOnce,
                 rssConfig, rssConfigErr, runs, summary, pinnedStatuses,
                 existingURLs, existingURLMap, page, allArticles, kumaArticles,
                 feedIdx, queue, successfullyPosted, saved, pruneAt, prev>>

\* what postPrefectureSummary returns once the summary is published,
\* given whether pinSummaryPosts returned an error
postPrefectureSummaryPropagate(pinErr) == IF pinErr THEN "error" ELSE "nil"

postPrefectureSummary(pinErr) == "nil"

\* pinSummaryPosts has returned: back in handleKumaBotRequest
AfterPin(pinErr) ==
  IF postPrefectureSummary(pinErr) = "nil"
    THEN pc' = "loadPostedURLs" /\ UNCHANGED result
    ELSE Finish("error", "pin")

CreatedAt(id) == (CHOOSE t \in Range(timeline) : t.id = id).createdAt

Newest(ids) == {i \in ids : \A j \in ids : ~(CreatedAt(j) > CreatedAt(i))}

\* sort.Slice by CreatedAt, element 0: a pinned status that no other precedes
Oldest(ids) == {i \in ids : \A j \in ids : ~(CreatedAt(j) < CreatedAt(i))}

\* pinSummaryPosts: GetAccountCurrentUser
PinAccount ==
  /\ pc = "pinAccount"
  /\ \E ok \in Outcomes :
       /\ Fault(ok)
       /\ calls' = Append(calls, Call("pinAccount", "", ok))
       /\ IF ok THEN pc' = "pinList" /\ UNCHANGED result ELSE AfterPin(TRUE)
  /\ UNCHANGED <<input, output, now, ticks, dryRun, forceSummary, extVars, rssConfigOnce, rssConfig,
                 rssConfigErr, runs, summary, newStatusID, pinnedStatuses,
                 existingURLs, existingURLMap, page, allArticles, kumaArticles,
                 feedIdx, queue, successfullyPosted, saved, pruneAt, prev>>

\* the test "len(pinnedStatuses) >= 5"
MustUnpin(statuses) == Cardinality(statuses) >= PinLimit

\* pinSummaryPosts: GetAccountPinnedStatuses and the test on their number
PinList ==
  /\ pc = "pinList"
  /\ \E ok \in Outcomes :
       /\ Fault(ok)
       /\ calls' = Append(calls, Call("pinned", "", ok))
       /\ IF ok
            THEN /\ pinnedStatuses' = pinned
                 /\ pc' = IF MustUnpin(pinned) THEN "unpin" ELSE "pin"
                 /\ UNCHANGED result
            ELSE /\ AfterPin(TRUE)
                 /\ UNCHANGED pinnedStatuses
  /\ UNCHANGED <<input, output, now, ticks, dryRun, forceSummary, extVars, rssConfigOnce, rssConfig,
                 rssConfigErr, runs, summary, newStatusID,
                 existingURLs, existingURLMap, page, allArticles, kumaArticles,
                 feedIdx, queue, successfullyPosted, saved, pruneAt, prev>>

\* pinSummaryPosts: POST /statuses/<oldest>/unpin
Unpin ==
  /\ pc = "unpin"
  /\ \E oldestPinned \in Oldest(pinnedStatuses), ok \in Outcomes :
       /\ Fault(ok)
       /\ calls' = Append(calls, CallID("unpin", oldestPinned, ok))
       /\ IF ok
            THEN /\ pinned' = pinned \ {oldestPinned}
                 /\ pc' = "pin"
                 /\ UNCHANGED result
            ELSE /\ AfterPin(TRUE)
                 /\ UNCHANGED pinned
  /\ UNCHANGED <<input, output, now, ticks, dryRun, forceSummary, store, site, feeds, timeline, rssConfigOnce,
                 rssConfig, rssConfigErr, runs, summary, newStatusID, pinnedStatuses,
                 existingURLs, existingURLMap, page, allArticles, kumaArticles,
                 feedIdx, queue, successfullyPosted, saved, pruneAt, prev>>

\* pinSummaryPosts: POST /statuses/<new>/pin; the service knows no status
\* "dry-run", so that request cannot succeed
Pin ==
  /\ pc = "pin"
  /\ \E ok \in IF newStatusID = DryRunID THEN {FALSE} ELSE Outcomes :
       /\ faults' = IF ok \/ newStatusID = DryRunID THEN faults ELSE faults + 1
       /\ calls' = Append(calls, CallID("pin", newStatusID, ok))
       /\ pinned' = IF ok THEN pinned \cup {newStatusID} ELSE pinned
       /\ AfterPin(~ok)
  /\ UNCHANGED <<input, output, now, ticks, dryRun, forceSummary, store, site, feeds, timeline, rssConfigOnce,
                 rssConfig, rssConfigErr, runs, summary, newStatusID, pinnedStatuses,
                 existingURLs, existingURLMap, page, allArticles, kumaArticles,
                 feedIdx, queue, successfullyPosted, saved, pruneAt, prev>>

\* ------------------------------------------------------------------ ingestion
URLsOf(s) == {s[i].url : i \in 1..Len(s)}

\* loadPostedURLs, cleanupOldURLs and the construction of existingURLMap
LoadPostedURLs ==
  /\ pc = "loadPostedURLs"
  /\ \E ok \in Outcomes :
       /\ Fault(ok)
       /\ calls' = Append(calls, Call("getLedger", "", ok))
       /\ IF ok
            THEN /\ existingURLs' = cleanupOldURLs(store, now)
                 /\ existingURLMap' = URLsOf(cleanupOldURLs(store, now))
                 /\ pruneAt' = now
                 /\ pc' = "fetchHTML"
                 /\ UNCHANGED result
            ELSE /\ Finish("error", "ledgerLoad")
                 /\ UNCHANGED <<existingURLs, existingURLMap, pruneAt>>
  /\ UNCHANGED <<input, output, now, ticks, dryRun, forceSummary, extVars, rssConfigOnce, rssConfig,
                 rssConfigErr, runs, summary, newStatusID, pinnedStatuses,
                 page, allArticles, kumaArticles, feedIdx, queue,
                 successfullyPosted, saved, prev>>

\* the comparison function of the two sort.Slice calls on PublishedAt
PublishedBefore(a, b) == a.publishedAt < b.publishedAt

SortedByPublishedAsParsed(s) == {s}

\* sort.Slice(s, PublishedBefore): some permutation of s in which no element
\* is published before an earlier one (sort.Slice is not stable)
SortedByPublished(s) ==
  {[i \in 1..Len(s) |-> s[p[i]]] : p \in
     {q \in Perms(Len(s)) :
        \A i, j \in 1..Len(s) : i < j => ~PublishedBefore(s[q[j]], s[q[i]])}}

\* the dedup loop of processKumaNews
NewPostedURLsNoDedup(articles, urlMap) == articles

NewPostedURLs(articles, urlMap) ==
  SelectSeq(articles, LAMBDA article : article.url \notin urlMap)

StopPagingOnFailureOnly(ok, articles, p) == ~ok

\* the two breaks of the page loop (a failed fetch on page 1 returns instead)
StopPaging(ok, articles, p) == ~ok \/ (articles = <<>> /\ p > 1)

\* processKumaNews: one pass of the page loop; when the loop ends, the
\* dedup against existingURLMap and the sort
FetchHTML ==
  /\ pc = "fetchHTML"
  /\ \E ok \in Outcomes :
       LET articles == site[page]
           stop == StopPaging(ok, articles, page)
           all == IF stop THEN allArticles ELSE allArticles \o articles
       IN /\ Fault(ok)
          /\ calls' = Append(calls, Call("fetchHTML", "", ok))
          /\ IF ~ok /\ page = 1
               THEN /\ Finish("error", "page1")
                    /\ UNCHANGED <<page, allArticles, kumaArticles>>
               ELSE IF stop \/ page = MaxPages
                 THEN /\ \E sorted \in SortedByPublished(NewPostedURLs(all, existingURLMap)) :
                           kumaArticles' = sorted
                      /\ allArticles' = <<>>
                      /\ pc' = "parseURL"
                      /\ UNCHANGED <<page, result>>
                 ELSE /\ allArticles' = all
                      /\ page' = page + 1
                      /\ UNCHANGED <<pc, kumaArticles, result>>
  /\ UNCHANGED <<input, output, now, ticks, dryRun, forceSummary, extVars, rssConfigOnce, rssConfig,
                 rssConfigErr, runs, summary, newStatusID, pinnedStatuses,
                 existingURLs, existingURLMap, feedIdx, queue,
                 successfullyPosted, saved, pruneAt, prev>>

\* the description that processRSSNews builds from item.Description
RSSDescription(item) ==
  IF item.description # <<>>
    THEN <<Newline, Newline, LinkGlyph, Space>> \o TrimSpace(item.description)
           \o <<Ellipsis>>
    ELSE <<>>

NoDate == ZeroTime

RECURSIVE ItemLoopWithNoMapUpdate(_, _, _)
ItemLoopWithNoMapUpdate(items, acc, cfg) ==
  IF items = <<>> \/ acc.panic THEN acc
  ELSE LET item == Head(items)
           description == RSSDescription(item)
       IN ItemLoopWithNoMapUpdate(Tail(items),
            IF item.link = "" THEN acc
            ELSE IF item.link \in acc.urlMap THEN acc
            ELSE IF ~isBearRelatedNews(item.title, description, cfg) THEN acc
            ELSE IF item.published = NoDate THEN [acc EXCEPT !.panic = TRUE]
            ELSE [acc EXCEPT
                    !.articles = Append(@, [url |-> item.link,
                                            publishedAt |-> item.published,
                                            description |-> description,
                                            postedAt |-> ZeroTime])],
            cfg)

RECURSIVE ItemLoopWith(_, _, _)
\* the loop of processRSSNews over feed.Items under the rule set cfg; acc is
\* [articles, urlMap, panic]
ItemLoopWith(items, acc, cfg) ==
  IF items = <<>> \/ acc.panic THEN acc
  ELSE LET item == Head(items)
           description == RSSDescription(item)
       IN ItemLoopWith(Tail(items),
            IF item.link = "" THEN acc
            ELSE IF item.link \in acc.urlMap THEN acc
            ELSE IF ~isBearRelatedNews(item.title, description, cfg) THEN acc
            ELSE IF item.published = NoDate THEN [acc EXCEPT !.panic = TRUE]
            ELSE [acc EXCEPT
                    !.articles = Append(@, [url |-> item.link,
                                            publishedAt |-> item.published,
                                            description |-> description,
                                            postedAt |-> ZeroTime]),
                    !.urlMap = @ \cup {item.link}],
            cfg)

\* the item loop under the rule set that the invocation loaded
ItemLoop(items, acc) == ItemLoopWith(items, acc, rssConfig)

RECURSIVE FeedLoop(_, _, _, _)
\* the loop of processRSSNews over rss_sources: a feed whose ParseURL fails
\* is logged and skipped
FeedLoop(sources, docs, failing, acc) ==
  IF sources = <<>> \/ acc.panic THEN acc
  ELSE IF Head(sources) \in failing
    THEN FeedLoop(Tail(sources), docs, failing, acc)
  ELSE FeedLoop(Tail(sources), docs, failing,
                ItemLoopWith(docs[Head(sources)], acc, RuleSet))

Tagged(articles, isRss) ==
  [i \in 1..Len(articles) |-> [article |-> articles[i], isRss |-> isRss]]

\* processRSSNews: one pass of the loop over rss_sources; when the loop ends,
\* the sort, and the test of handleKumaBotRequest on the two lists
ParseURL ==
  /\ pc = "parseURL"
  /\ \E ok \in Outcomes :
       LET acc == IF ok
                    THEN ItemLoop(feeds[rssConfig.sources[feedIdx]],
                                  [articles |-> allArticles, urlMap |-> existingURLMap,
                                   panic |-> FALSE])
                    ELSE [articles |-> allArticles, urlMap |-> existingURLMap,
                          panic |-> FALSE]
       IN /\ Fault(ok)
          /\ calls' = Append(calls, Call("parseURL", "", ok))
          /\ IF acc.panic
               THEN /\ Finish("panic", "nilPublishedParsed")
                    /\ UNCHANGED <<allArticles, existingURLMap, feedIdx, queue>>
               ELSE /\ existingURLMap' = acc.urlMap
                    /\ IF feedIdx < Len(rssConfig.sources)
                         THEN /\ allArticles' = acc.articles
                              /\ feedIdx' = feedIdx + 1
                              /\ UNCHANGED <<pc, queue, result>>
                         ELSE /\ allArticles' = <<>>
                              /\ UNCHANGED feedIdx
                              /\ \E rssArticles \in SortedByPublished(acc.articles) :
                                   IF Len(kumaArticles) > 0 \/ Len(rssArticles) > 0
                                     THEN /\ queue' = Tagged(kumaArticles, FALSE)
                                                      \o Tagged(rssArticles, TRUE)
                                          /\ pc' = "post"
                                          /\ UNCHANGED result
                                     ELSE /\ Finish("ok", "none")
                                          /\ UNCHANGED queue
  /\ UNCHANGED <<input, output, now, ticks, dryRun, forceSummary, extVars, rssConfigOnce, rssConfig,
                 rssConfigErr, runs, summary, newStatusID, pinnedStatuses,
                 existingURLs, page, kumaArticles, successfullyPosted, saved,
                 pruneAt, prev>>

\* the text that postSingleArticle renders, as far as the aggregation reads it
PostContent(a, isRss) ==
  IF isRss THEN [marker |-> FALSE, location |-> <<>>]
  ELSE [marker |-> TRUE, location |-> TrimSpace(a.description)]

PostedEntriesPending(article, success, t) ==
  IF success THEN <<article>> ELSE <<>>

\* what postArticlesByType appends for an article, given the outcome of
\* postSingleArticle
PostedEntries(article, success, t) ==
  IF success THEN <<[article EXCEPT !.postedAt = t]>> ELSE <<>>

ArticleCallsNoDelay(article, ok) ==
  IF dryRun THEN <<>> ELSE <<Call("publish", article.url, ok)>>

\* the calls of one pass of the loop: PostStatus unless DRY_RUN, then
\* time.Sleep(PostDelay), whatever the outcome and the position in the list
ArticleCalls(article, ok) ==
  (IF dryRun THEN <<>> ELSE <<Call("publish", article.url, ok)>>)
    \o <<Call("sleep", "", TRUE)>>

\* postArticlesByType: one pass of the loop (postSingleArticle, the ledger
\* entry on success, time.Sleep)
PostSingleArticle ==
  /\ pc = "post"
  /\ LET article == Head(queue).article
         isRss == Head(queue).isRss
         status == [id |-> NextID, createdAt |-> now,
                    kind |-> IF isRss THEN "rss" ELSE "kuma", url |-> article.url,
                    content |-> PostContent(article, isRss),
                    total |-> 0, lines |-> <<>>]
     IN \E ok \in (IF dryRun THEN {TRUE} ELSE Outcomes) :
          /\ Fault(ok)
          /\ calls' = calls \o ArticleCalls(article, ok)
          /\ timeline' = IF ok /\ ~dryRun THEN <<status>> \o timeline ELSE timeline
          /\ successfullyPosted' = successfullyPosted \o PostedEntries(article, ok, now)
  /\ queue' = Tail(queue)
  /\ pc' = IF Tail(queue) = <<>> THEN "save" ELSE "post"
  /\ UNCHANGED <<input, output, now, ticks, dryRun, forceSummary, store, site, feeds, pinned, rssConfigOnce,
                 rssConfig, rssConfigErr, runs, summary, newStatusID, pinnedStatuses,
                 existingURLs, existingURLMap, page, allArticles, kumaArticles,
                 feedIdx, saved, pruneAt, result, prev>>

PutObjectMerge(current, doc) ==
  current \o SelectSeq(doc, LAMBDA e : e.url \notin URLsOf(current))

\* svc.PutObject on the ledger key: the object becomes the document written
PutObject(current, doc) == doc

LedgerDocumentUnpruned(existing, posted) == store \o posted

\* append(existingURLs, successfullyPostedURLs...): the pruned survivors,
\* then the entries of this run
LedgerDocument(existing, posted) == existing \o posted

\* savePostedURLs(append(existingURLs, successfullyPostedURLs...))
SavePostedURLs ==
  /\ pc = "save"
  /\ LET doc == LedgerDocument(existingURLs, successfullyPosted)
     IN /\ saved' = Append(saved, doc)
        /\ IF dryRun
             THEN /\ Finish("ok", "none")
                  /\ UNCHANGED <<store, calls, faults>>
             ELSE \E ok \in Outcomes :
                    /\ Fault(ok)
                    /\ calls' = Append(calls, Call("putLedger", "", ok))
                    /\ store' = IF ok THEN PutObject(store, doc) ELSE store
                    /\ IF ok THEN Finish("ok", "none") ELSE Finish("error", "save")
  /\ UNCHANGED <<input, output, now, ticks, dryRun, forceSummary, site, feeds, timeline, pinned, rssConfigOnce,
                 rssConfig, rssConfigErr, runs, summary, newStatusID, pinnedStatuses,
                 existingURLs, existingURLMap, page, allArticles, kumaArticles,
                 feedIdx, queue, successfullyPosted, pruneAt, prev>>

\* positions in calls of the article publish calls, failed and successful
PublishCalls ==
  {i \in 1..Len(calls) : calls[i].op = "publish" /\ calls[i].arg # "summary"}
FailedCalls == {i \in PublishCalls : ~calls[i].ok}
PublishedCalls == {i \in PublishCalls : calls[i].ok}
FailedURLs == {calls[i].arg : i \in FailedCalls}
PublishedURLs == {calls[i].arg : i \in PublishedCalls}
\* every ledger load and save of this invocation succeeded
LedgerCallsOK ==
  \A i \in 1..Len(calls) : calls[i].op \in {"getLedger", "putLedger"} => calls[i].ok
\* the invocation returned nil and none of its article publish calls failed
Clean == result.status = "ok" /\ FailedURLs = {}
\* the responses of the sources to this invocation's fetches
Fetches == SelectSeq(calls, LAMBDA c : c.op \in {"fetchHTML", "parseURL"})

\* the handler has returned; the process waits for the next trigger
Return ==
  /\ pc = "done"
  /\ pc' = "idle"
  /\ prev' = [done |-> TRUE, clean |-> Clean, pruneAt |-> pruneAt,
              fetches |-> Fetches, failed |-> FailedURLs,
              posted |-> Cardinality(PublishedCalls), store |-> store,
              ledgerOK |-> prev.ledgerOK /\ LedgerCallsOK]
  /\ summary' = NoSummary
  /\ newStatusID' = DryRunID
  /\ pinnedStatuses' = {}
  /\ existingURLs' = <<>>
  /\ existingURLMap' = {}
  /\ page' = 1
  /\ allArticles' = <<>>
  /\ kumaArticles' = <<>>
  /\ feedIdx' = 1
  /\ queue' = <<>>
  /\ successfullyPosted' = <<>>
  /\ calls' = <<>>
  /\ saved' = <<>>
  /\ pruneAt' = 0
  /\ result' = NoResult
  /\ UNCHANGED <<input, output, now, ticks, faults, dryRun, forceSummary, extVars, rssConfigOnce, rssConfig,
                 rssConfigErr, runs>>

\* time passes between invocations
Tick ==
  /\ pc = "idle"
  /\ ticks < MaxTicks
  /\ \E d \in ClockSteps : now' = now + d
  /\ ticks' = ticks + 1
  /\ UNCHANGED <<input, output, faults, dryRun, forceSummary, extVars, rssConfigOnce, rssConfig, rssConfigErr, runs,
                 pc, runVars, prev>>

Next ==
  \/ Invoke
  \/ LoadConfig
  \/ LoadRSSConfig
  \/ FetchRecentToots
  \/ PostSummary
  \/ PinAccount
  \/ PinList
  \/ Unpin
  \/ Pin
  \/ LoadPostedURLs
  \/ FetchHTML
  \/ ParseURL
  \/ PostSingleArticle
  \/ SavePostedURLs
  \/ Return
  \/ Tick

Spec == Init /\ [][Next]_vars

TypeOK ==
  /\ pc \in {"idle", "loadConfig", "loadRSSConfig", "fetchRecentToots", "postSummary",
             "pinAccount", "pinList", "unpin", "pin", "loadPostedURLs", "fetchHTML",
             "parseURL", "post", "save", "done"}
  /\ runs \in 0..MaxRuns
  /\ ticks \in 0..MaxTicks

\* invocations with DRY_RUN=1, on an account with InitPinned pinned
\* summaries or one more
InitDry ==
  /\ \E force \in BOOLEAN, ledger \in {<<>>, <<OldEntry>>}, listing \in Sites,
        docs \in FeedSets, n \in {InitPinned, InitPinned + 1} :
       StartStateWith(TRUE, force, ledger, listing, docs, n)
  /\ input = <<>>
  /\ output = NotApplied

SpecDry == InitDry /\ [][Next]_vars

\* ------------------------------------------- functions applied on their own
mainVars == <<now, ticks, faults, dryRun, forceSummary, store, site, feeds, timeline,
              pinned, rssConfigOnce, rssConfig, rssConfigErr, runs, pc, runVars, prev>>

\* no invocation takes place
Quiet ==
  StartState(FALSE, FALSE, <<>>,
             CHOOSE listing \in Sites : TRUE, CHOOSE docs \in FeedSets : TRUE)

Deliver(value) ==
  /\ ~output.done
  /\ output' = [done |-> TRUE, value |-> value]
  /\ UNCHANGED <<input, mainVars>>

\* cleanupOldURLs on any ledger at any instant
MaxLedger == 3
LedgerTimes == {0 - RetentionSpan - 1, 0 - RetentionSpan, 1 - RetentionSpan, 0}
LedgerEntries ==
  {[url |-> u, publishedAt |-> 0, description |-> <<>>, postedAt |-> t] :
     u \in {"u1", "u2"}, t \in LedgerTimes}

InitPrune ==
  /\ Quiet
  /\ input \in [existingURLs : SeqsUpTo(LedgerEntries, MaxLedger), t : {0, 1}]
  /\ output = NotApplied

ApplyCleanup == Deliver(cleanupOldURLs(input.existingURLs, input.t))

SpecPrune == InitPrune /\ [][ApplyCleanup]_vars

\* isBearRelatedNews on any title, description and rule set
Letters == {107, 120}
Keywords == {<<>>, <<107>>, <<120>>, <<107, Space>>}

InitFilter ==
  /\ Quiet
  /\ input \in [title : SeqsUpTo(Letters, 2), description : SeqsUpTo(Letters, 1),
                include : SeqsUpTo(Keywords, MaxKeywords),
                exclude : SeqsUpTo(Keywords, MaxKeywords)]
  /\ output = NotApplied

ApplyFilter ==
  Deliver(isBearRelatedNews(input.title, input.description,
                            [include |-> input.include, exclude |-> input.exclude]))

SpecFilter == InitFilter /\ [][ApplyFilter]_vars

\* the ranking and its rendering on any tally
InitRank ==
  /\ Quiet
  /\ input \in [counts : [Range(prefectures) -> 0..MaxCount], otherCount : 0..MaxCount]
  /\ output = NotApplied

ApplyRank == Deliver(formatPrefectureStats(RankResults(input)))

SpecRank == InitRank /\ [][ApplyRank]_vars

\* RSSNewsTemplate, the text around its three verbs
RSSNewsHead ==
  <<128240, 32, 12463, 12510, 38306, 36899, 12491, 12517, 12540, 12473, 65306>>
RSSNewsTail == <<10, 10, 35, 12463, 12510, 38306, 36899, 12491, 12517, 12540, 12473>>
RSSNewsTemplate(title, url, description) ==
  RSSNewsHead \o title \o <<Newline, Newline>> \o url \o description \o RSSNewsTail

PostLimit == 500

\* postSingleArticle, isRss: the text handed to postToMastodonWithContent
RSSPost(title, url, description) ==
  LET post == RSSNewsTemplate(title, url, description)
  IN IF Len(post) > PostLimit THEN RSSNewsTemplate(title, url, <<>>) ELSE post

\* postSingleArticle on feed articles of any title, link and excerpt length
MaxTitle == 5
MaxExcerpt == 8
Fill(n) == [i \in 1..n |-> 107]
TitleLengths == {100 * k : k \in 0..MaxTitle}
LinkLengths == {23, 60}
ExcerptLengths == {0} \cup {65 * k : k \in 1..MaxExcerpt}

InitRender ==
  /\ Quiet
  /\ input \in [title : {Fill(n) : n \in TitleLengths},
                url : {Fill(n) : n \in LinkLengths},
                description : {RSSDescription([description |-> Fill(n)]) :
                                 n \in ExcerptLengths}]
  /\ output = NotApplied

ApplyRender == Deliver(RSSPost(input.title, input.url, input.description))

SpecRender == InitRender /\ [][ApplyRender]_vars

\* ---------------------------------------------------------------- calendar
\* A wall-clock time in UTC+9 is [year, month, day, hour, minute, second].
Leap(y) == y % 4 = 0 /\ (y % 100 # 0 \/ y % 400 = 0)
DaysIn(y, m) ==
  IF m = 2 THEN (IF Leap(y) THEN 29 ELSE 28)
  ELSE IF m \in {4, 6, 9, 11} THEN 30 ELSE 31

\* the order of wall-clock times of one zone
Stamp(t) == <<t.year, t.month, t.day, t.hour, t.minute, t.second>>
After(a, b) ==
  \E k \in 1..6 : /\ Stamp(a)[k] > Stamp(b)[k]
                  /\ \A j \in 1..(k - 1) : Stamp(a)[j] = Stamp(b)[j]

NoTime == [year |-> 1, month |-> 1, day |-> 1, hour |-> 0, minute |-> 0, second |-> 0]

\* time.ParseInLocation("2006/1/2 15:4", ...) on the numbers of the text:
\* an error when a field is out of range or the day is not in the month
ParseInLocation(y, frag) ==
  IF /\ frag.month \in 1..12
     /\ frag.day \in 1..DaysIn(y, frag.month)
     /\ frag.hour \in 0..23
     /\ frag.minute \in 0..59
    THEN [err |-> FALSE,
          time |-> [year |-> y, month |-> frag.month, day |-> frag.day,
                    hour |-> frag.hour, minute |-> frag.minute, second |-> 0]]
    ELSE [err |-> TRUE, time |-> NoTime]

parseDateTimeNoGuard(frag, nowJST) == ParseInLocation(nowJST.year, frag)

\* parseDateTime, given time.Now().In(jst)
parseDateTime(frag, nowJST) ==
  LET parsedTime == ParseInLocation(nowJST.year, frag)
  IN IF parsedTime.err THEN parsedTime
     ELSE IF After(parsedTime.time, nowJST)
       THEN ParseInLocation(nowJST.year - 1, frag)
       ELSE parsedTime

\* parseDateTime on any month/day and hour:minute at instants of several years
MaxNowYears == 2
FirstYear == 2024
NowYears == FirstYear..(FirstYear + MaxNowYears - 1)
NowPoints ==
  {<<1, 2, 0, 0, 0>>, <<1, 5, 10, 0, 30>>, <<3, 1, 0, 0, 0>>, <<10, 31, 15, 3, 59>>,
   <<10, 31, 15, 4, 0>>, <<11, 1, 9, 0, 0>>, <<12, 31, 23, 59, 59>>}
Instants ==
  {[year |-> y, month |-> p[1], day |-> p[2], hour |-> p[3], minute |-> p[4],
    second |-> p[5]] : y \in NowYears, p \in NowPoints}
Fragments ==
  [month : 1..12, day : 1..31, hour : {0, 15, 23}, minute : {4}]

InitDate ==
  /\ Quiet
  /\ input \in [frag : Fragments, now : Instants]
  /\ output = NotApplied

ApplyParseDateTime == Deliver(parseDateTime(input.frag, input.now))

SpecDate == InitDate /\ [][ApplyParseDateTime]_vars

\* processRSSNews on any feed documents, failing feeds and ledger urls
MaxItems == 2
ItemN == [link |-> "u2", title |-> KwBear, description |-> <<>>, published |-> NoDate]
ItemE == [link |-> "", title |-> KwBear, description |-> <<>>, published |-> 2]
FeedItems == {ItemA, ItemC, ItemX, ItemN, ItemE}

InitFeeds ==
  /\ Quiet
  /\ input \in [docs : [1..NumFeeds -> SeqsUpTo(FeedItems, MaxItems)],
                failing : SUBSET (1..NumFeeds),
                existingURLMap : SUBSET {"u1"}]
  /\ output = NotApplied

\* processRSSNews: the feed loop on the map built from the pruned ledger,
\* then the sort; a nil PublishedParsed panics and nothing is returned
ApplyProcessRSSNews ==
  LET acc == FeedLoop(RuleSet.sources, input.docs, input.failing,
                      [articles |-> <<>>, urlMap |-> input.existingURLMap,
                       panic |-> FALSE])
  IN \E sorted \in SortedByPublished(acc.articles) :
       Deliver([panic |-> acc.panic,
                articles |-> IF acc.panic THEN <<>> ELSE sorted])

SpecFeeds == InitFeeds /\ [][ApplyProcessRSSNews]_vars

\* extractPrefecture on any location text built from names and other pieces
MaxSegments == 3
Segments ==
  Range(prefectures) \cup {<<120>>, <<26481>>, <<20140, 37117>>, <<Space>>}
RECURSIVE Flatten(_)
Flatten(ss) == IF ss = <<>> THEN <<>> ELSE Head(ss) \o Flatten(Tail(ss))
LocationTexts == {Flatten(ss) : ss \in SeqsUpTo(Segments, MaxSegments)}

InitExtract ==
  /\ Quiet
  /\ input \in [text : LocationTexts]
  /\ output = NotApplied

ApplyExtractPrefecture == Deliver(extractPrefecture(input.text))

SpecExtract == InitExtract /\ [][ApplyExtractPrefecture]_vars

\* ------------------------------------------------------- overlapping runs
\* Two invocations of the ingestion (load, prune, dedup, publish, append,
\* save) on one stored ledger, their steps interleaved. input holds the
\* ledger at the start and the articles that each run finds; output holds
\* the stored ledger, each run's locals and the saves in the order made.
Runners == {1, 2}
FoundLists == {<<>>, <<ArtA>>, <<ArtB>>, <<ArtB, ArtA>>}
NotLoaded == [pc |-> "load", existingURLs |-> <<>>, queue |-> <<>>,
              successfullyPosted |-> <<>>]

InitOverlap ==
  /\ Quiet
  /\ input \in [ledger : {<<>>, <<OldEntry>>}, found : [Runners -> FoundLists]]
  /\ output = [store |-> input.ledger, proc |-> [r \in Runners |-> NotLoaded],
               saves |-> <<>>, loadedAtFirstSave |-> {}]

\* loadPostedURLs, cleanupOldURLs, the dedup against existingURLMap and the
\* test on the number of new articles
LoadBy(r) ==
  /\ output.proc[r].pc = "load"
  /\ LET existing == cleanupOldURLs(output.store, now)
     IN \E sorted \in SortedByPublished(NewPostedURLs(input.found[r], URLsOf(existing))) :
          output' = [output EXCEPT
                       !.proc[r] = [pc |-> IF sorted = <<>> THEN "done" ELSE "post",
                                    existingURLs |-> existing,
                                    queue |-> sorted,
                                    successfullyPosted |-> <<>>]]
  /\ UNCHANGED <<input, mainVars>>

\* one pass of the loop of postArticlesByType
PostBy(r) ==
  /\ output.proc[r].pc = "post"
  /\ \E ok \in BOOLEAN :
       LET p == output.proc[r]
       IN output' = [output EXCEPT
                       !.proc[r] = [p EXCEPT
                          !.pc = IF Tail(p.queue) = <<>> THEN "save" ELSE "post",
                          !.queue = Tail(p.queue),
                          !.successfullyPosted =
                             @ \o PostedEntries(Head(p.queue), ok, now)]]
  /\ UNCHANGED <<input, mainVars>>

\* savePostedURLs(append(existingURLs, successfullyPostedURLs...))
SaveBy(r) ==
  /\ output.proc[r].pc = "save"
  /\ LET p == output.proc[r]
         doc == p.existingURLs \o p.successfullyPosted
     IN output' = [output EXCEPT
                     !.store = PutObject(output.store, doc),
                     !.proc[r].pc = "done",
                     !.saves = Append(@, [by |-> r, doc |-> doc]),
                     !.loadedAtFirstSave =
                        IF output.saves = <<>>
                          THEN {q \in Runners : output.proc[q].pc # "load"}
                          ELSE @]
  /\ UNCHANGED <<input, mainVars>>

NextOverlap == \E r \in Runners : LoadBy(r) \/ PostBy(r) \/ SaveBy(r)

SpecOverlap == InitOverlap /\ [][NextOverlap]_vars

\* ------------------------------------------------- the status fetch loop
\* fetchRecentToots page by page. input holds the account timeline (newest
\* first, ids descending), the cutoff and the number of statuses that the
\* service puts in a page (at most Limit); output holds the locals of the loop.
TootFetchLimit == 40
MaxToots == 4
MaxPageSize == 2
NoMaxID == 0
TootTimes == {0, 1, 2}
Toot(i, t) == [id |-> i, createdAt |-> t]
AccountTimelines ==
  {[i \in 1..Len(ts) |-> Toot(Len(ts) + 1 - i, ts[i])] : ts \in
     {x \in SeqsUpTo(TootTimes, MaxToots) :
        \A i, j \in 1..Len(x) : i < j => x[i] >= x[j]}}

Min(a, b) == IF a < b THEN a ELSE b

\* client.GetAccountStatuses with Pagination{MaxID, Limit}: the newest
\* statuses with an id below the cursor, a page of them
GetAccountStatuses(statuses, maxID, limit) ==
  LET below == SelectSeq(statuses, LAMBDA s : maxID = NoMaxID \/ s.id < maxID)
  IN SubSeq(below, 1, Min(Len(below), limit))

InitToots ==
  /\ Quiet
  /\ input \in [timeline : AccountTimelines, since : {0, 1},
                pageSize : 1..MaxPageSize]
  /\ output = [done |-> FALSE, maxID |-> NoMaxID, allToots |-> <<>>, requests |-> 0]

\* one pass of the for loop of fetchRecentToots
FetchPage ==
  /\ ~output.done
  /\ LET toots == GetAccountStatuses(input.timeline, output.maxID,
                                     Min(TootFetchLimit, input.pageSize))
         recent == TakeAfter(toots, input.since)
     IN output' =
          IF toots = <<>>
            THEN [output EXCEPT !.done = TRUE, !.requests = @ + 1]
          ELSE IF Len(recent) < Len(toots)
            THEN [output EXCEPT !.done = TRUE, !.requests = @ + 1,
                                !.allToots = @ \o recent]
          ELSE [output EXCEPT !.requests = @ + 1, !.allToots = @ \o toots,
                              !.maxID = toots[Len(toots)].id]
  /\ UNCHANGED <<input, mainVars>>

SpecToots == InitToots /\ [][FetchPage]_vars /\ WF_vars(FetchPage)

\* =================================================================== claims

\* C4 as stated: prune returns, in their original order, exactly the entries
\* whose posted_at is not older than now minus 30 days, the entry with
\* posted_at equal to now-30d included.
C4_BoundaryRetained ==
  output.done =>
    output.value = SelectIdx(input.existingURLs,
      {i \in 1..Len(input.existingURLs) :
         input.existingURLs[i].postedAt >= input.t - RetentionSpan})

\* C4 amended: prune returns, in their original order, exactly the entries
\* whose posted_at is strictly later than now minus 30 days; the entry with
\* posted_at equal to now-30d is removed.
C4_StrictlyNewerRetained ==
  output.done =>
    output.value = SelectIdx(input.existingURLs,
      {i \in 1..Len(input.existingURLs) :
         input.existingURLs[i].postedAt > input.t - RetentionSpan})

\* a pruned ledger that held an entry exactly 30 days old, an older one and
\* a newer one
C4_Witness ==
  /\ output.done
  /\ \E i, j, k \in 1..Len(input.existingURLs) :
       /\ input.existingURLs[i].postedAt = input.t - RetentionSpan
       /\ input.existingURLs[j].postedAt < input.t - RetentionSpan
       /\ input.existingURLs[k].postedAt > input.t - RetentionSpan
  /\ Len(output.value) = 1

\* C6: the summary lists the regions with a positive count, by count
\* descending and region name ascending among equal counts, and the rank of
\* a line is 1 plus the number of ranked regions with a strictly greater count.
RankedLines(lines) == SelectSeq(lines, LAMBDA l : l.numbered)

C6_CompetitionRanking ==
  output.done =>
    LET ranked == RankedLines(output.value)
    IN /\ {[prefecture |-> ranked[i].prefecture, count |-> ranked[i].count] :
             i \in 1..Len(ranked)} = RankedEntries(input)
       /\ Len(ranked) = Cardinality(RankedEntries(input))
       /\ \A i, j \in 1..Len(ranked) : i < j =>
            \/ ranked[i].count > ranked[j].count
            \/ /\ ranked[i].count = ranked[j].count
               /\ StringLess(ranked[i].prefecture, ranked[j].prefecture)
       /\ \A i \in 1..Len(ranked) :
            ranked[i].rank =
              1 + Cardinality({j \in 1..Len(ranked) : ranked[j].count > ranked[i].count})

\* a listing with ranks 1, 2, 2, 4 in which the two regions of rank 2 are
\* declared in the opposite order of their names
C6_Witness ==
  /\ output.done
  /\ LET ranked == RankedLines(output.value)
     IN /\ Len(ranked) >= 4
        /\ [i \in 1..4 |-> ranked[i].rank] = <<1, 2, 2, 4>>
        /\ ranked[2].prefecture = Tokyo
        /\ ranked[3].prefecture = Akita

\* C7: the unclassified bucket, when positive, is the last line, carries no
\* rank, and the ranked lines are those of the same tally without it.
C7_OtherLastUnranked ==
  output.done =>
    LET lines == output.value
        n == Len(lines)
        ranked == formatPrefectureStats(RankResults([input EXCEPT !.otherCount = 0]))
    IN /\ input.otherCount > 0 =>
            /\ n = Len(ranked) + 1
            /\ lines[n] = [numbered |-> FALSE, rank |-> 0,
                           prefecture |-> OtherPrefecture, count |-> input.otherCount]
            /\ SubSeq(lines, 1, n - 1) = ranked
       /\ input.otherCount = 0 => lines = ranked
       /\ \A i \in 1..Len(ranked) :
            ranked[i].numbered /\ ranked[i].prefecture # OtherPrefecture

\* an unclassified count above every ranked count, with two ranked regions
C7_Witness ==
  /\ output.done
  /\ Len(output.value) >= 3
  /\ \A p \in Range(prefectures) : input.counts[p] < input.otherCount
  /\ ~output.value[Len(output.value)].numbered

\* C8: the filter accepts iff no exclude keyword is a substring of
\* title + " " + description and some include keyword is.
C8_ExcludeThenInclude ==
  output.done =>
    LET text == input.title \o <<Space>> \o input.description
    IN output.value =
         (/\ \A k \in Range(input.exclude) : ~Contains(text, k)
          /\ \E k \in Range(input.include) : Contains(text, k))

\* an item that holds an include keyword and an exclude keyword, rejected
C8_Witness ==
  /\ output.done
  /\ LET text == input.title \o <<Space>> \o input.description
     IN /\ \E k \in Range(input.exclude) : k # <<>> /\ Contains(text, k)
        /\ \E k \in Range(input.include) : k # <<>> /\ Contains(text, k)
  /\ output.value = FALSE

\* ------------------------------------------------------ claims on the runs
NoDupURL(s) == \A i, j \in 1..Len(s) : i # j => s[i].url # s[j].url

\* C1: starting from a loaded ledger with pairwise distinct urls, the
\* document handed to the ledger save holds no url twice.
C1_SavedLedgerUnique ==
  (pc = "save" /\ NoDupURL(store)) => NoDupURL(existingURLs \o successfullyPosted)

\* C2: while every ledger load and save succeeds, each article url is the
\* subject of at most one successful publish call, over all invocations.
ArticlePosts(u) == {i \in 1..Len(timeline) : timeline[i].kind # "summary" /\ timeline[i].url = u}

C2_PublishedAtMostOnce ==
  (prev.ledgerOK /\ LedgerCallsOK) =>
    \A u \in {"u1", "u2", "u3"} : Cardinality(ArticlePosts(u)) <= 1

\* the previous invocation completed with every publish and the save
\* succeeding, and the sources answer this one as they answered it
RepeatedRun == prev.done /\ prev.clean /\ pc = "done" /\ Fetches = prev.fetches

NoExpiryBetween ==
  \A i \in 1..Len(prev.store) :
    prev.store[i].postedAt > prev.pruneAt - RetentionSpan =>
      prev.store[i].postedAt > pruneAt - RetentionSpan

ScrapedPages ==
  {p \in 1..MaxPages :
     /\ p <= Cardinality({i \in 1..Len(calls) : calls[i].op = "fetchHTML" /\ calls[i].ok})
     /\ \A q \in 2..p : site[q] # <<>>}
StillListed(u) == \E p \in ScrapedPages : \E k \in 1..Len(site[p]) : site[p][k].url = u

\* C5: outside dry run, the saved document is the pruned survivors followed
\* by exactly the articles whose publish call succeeded, an article whose
\* publish call failed is absent from it, and the next run that reaches
\* publishing attempts it again when the scraped source still lists it.
C5_FailedAbsentAndRetried ==
  /\ (pc = "done" /\ ~dryRun /\ saved # <<>>) =>
       /\ saved[1] = existingURLs \o successfullyPosted
       /\ URLsOf(successfullyPosted) = PublishedURLs
       /\ \A u \in FailedURLs : u \notin URLsOf(saved[1])
  /\ (pc = "done" /\ ~dryRun /\ prev.done /\ result.cause \in {"none", "save"}) =>
       \A u \in prev.failed :
         StillListed(u) => \E i \in PublishCalls : calls[i].arg = u

\* C9: once the pinned posts are listed, with 5 or more of them exactly one
\* unpin call is made, on a pinned post that none precedes in creation time,
\* before the pin call of the new summary; with 4 or fewer no unpin call is
\* made and the new summary is pinned.
CallsOf(op) == SelectSeq(calls, LAMBDA c : c.op = op)
Listed == \E i \in 1..Len(calls) : calls[i].op = "pinned" /\ calls[i].ok
RotationOver ==
  pc \in {"loadPostedURLs", "fetchHTML", "parseURL", "post", "save", "done"}

C9_PinRotation ==
  /\ ~Listed => CallsOf("unpin") = <<>> /\ CallsOf("pin") = <<>>
  /\ (Listed /\ RotationOver) =>
       LET unpins == CallsOf("unpin")
           pins == CallsOf("pin")
       IN IF Cardinality(pinnedStatuses) >= 5
            THEN /\ Len(unpins) = 1
                 /\ unpins[1].id \in pinnedStatuses
                 /\ \A j \in pinnedStatuses : CreatedAt(unpins[1].id) <= CreatedAt(j)
                 /\ Len(pins) = (IF unpins[1].ok THEN 1 ELSE 0)
                 /\ \A i, j \in 1..Len(calls) :
                      (calls[i].op = "unpin" /\ calls[j].op = "pin") => i < j
                 /\ unpins[1].ok => unpins[1].id \notin pinned
            ELSE /\ Len(unpins) = 0
                 /\ Len(pins) = 1
                 /\ pinnedStatuses \subseteq pinned
       /\ \A i \in 1..Len(pins) :
            /\ pins[i].id = newStatusID
            /\ pins[i].ok => newStatusID \in pinned

\* five pinned posts, the oldest unpinned, then the new summary pinned
C9_Witness ==
  /\ RotationOver
  /\ Cardinality(pinnedStatuses) = 5
  /\ \E i, j \in 1..Len(calls) :
       /\ i < j
       /\ calls[i].op = "unpin" /\ calls[i].ok
       /\ calls[j].op = "pin" /\ calls[j].ok
  /\ Cardinality(pinned) = 5

\* C10: a failure inside pin rotation leaves the summary published and the
\* aggregation branch successful; the invocation goes on to ingestion, and
\* its result is the result of ingestion.
PinFailed ==
  \E i \in 1..Len(calls) :
    calls[i].op \in {"pinAccount", "pinned", "unpin", "pin"} /\ ~calls[i].ok

C10_PinFailureOnlyLogged ==
  PinFailed =>
    /\ RotationOver
    /\ ~dryRun => \E i \in 1..Len(timeline) :
                    timeline[i].id = newStatusID /\ timeline[i].kind = "summary"
    /\ pc = "done" =>
         /\ \E i \in 1..Len(calls) : calls[i].op = "getLedger"
         /\ result.cause \in {"none", "ledgerLoad", "page1", "save", "nilPublishedParsed"}
         /\ result.status = "ok" <=>
              /\ \A i \in 1..Len(calls) :
                   calls[i].op \in {"getLedger", "putLedger"} => calls[i].ok
              /\ \E i \in 1..Len(calls) : calls[i].op = "parseURL"

\* a run whose pin call failed and whose ingestion published and saved
C10_Witness ==
  /\ PinFailed
  /\ ~dryRun
  /\ pc = "done"
  /\ result.status = "ok"
  /\ PublishedCalls # {}
  /\ saved # <<>>

\* C11: the text that postSingleArticle hands to the publish call for a feed
\* article has at most 500 characters, whatever the lengths of the title, the
\* link and the excerpt; a rendering above 500 is rendered again without the
\* excerpt.
C11_FeedPostWithinLimit ==
  output.done =>
    /\ Len(output.value) <= 500
    /\ output.value \in {RSSNewsTemplate(input.title, input.url, input.description),
                         RSSNewsTemplate(input.title, input.url, <<>>)}

\* the fragment names a day of the calendar (February 29 included)
IsMonthDay(frag) == frag.day <= DaysIn(FirstYear, frag.month)
InYear(frag, y) == ParseInLocation(y, frag).time
Candidate == InYear(input.frag, input.now.year)

\* C12 as stated: for every month/day and time fragment and every current
\* instant, the normalizer returns the fragment in the current year when that
\* is not after now, and in the previous year otherwise; the result is never
\* after now.
C12_YearChosenForEveryFragment ==
  (output.done /\ IsMonthDay(input.frag)) =>
    /\ ~output.value.err
    /\ output.value.time.month = input.frag.month
    /\ output.value.time.day = input.frag.day
    /\ output.value.time.hour = input.frag.hour
    /\ output.value.time.minute = input.frag.minute
    /\ output.value.time.year \in {input.now.year, input.now.year - 1}
    /\ ~After(output.value.time, input.now)

\* C12 amended: when the fragment's day exists in the current year, the
\* normalizer returns it in the current year if that is not after now and
\* otherwise in the previous year, where a day missing from the previous year
\* (February 29) gives an error; a day missing from the current year gives an
\* error; a returned timestamp is never after now.
C12_YearChosenWhenDayExists ==
  output.done =>
    LET y == input.now.year
        frag == input.frag
        inCurrent == frag.day <= DaysIn(y, frag.month)
        inPrevious == frag.day <= DaysIn(y - 1, frag.month)
    IN /\ ~inCurrent => output.value.err
       /\ (inCurrent /\ ~After(Candidate, input.now)) =>
            ~output.value.err /\ output.value.time = Candidate
       /\ (inCurrent /\ After(Candidate, input.now) /\ inPrevious) =>
            ~output.value.err /\ output.value.time = InYear(frag, y - 1)
       /\ (inCurrent /\ After(Candidate, input.now) /\ ~inPrevious) =>
            output.value.err
       /\ ~output.value.err => ~After(output.value.time, input.now)

\* 10/31 15:04 read on January 2 gives October 31 of the previous year
C12_Witness ==
  /\ output.done
  /\ input.frag = [month |-> 10, day |-> 31, hour |-> 15, minute |-> 4]
  /\ input.now.month = 1 /\ input.now.day = 2
  /\ ~output.value.err
  /\ output.value.time.year = input.now.year - 1

\* C13: with DRY_RUN=1 an invocation makes no publish, pin or unpin call and
\* no ledger write, and leaves the pinned set (every summary of the timeline,
\* as at the start) and the stored ledger as they were.
C13_DryRunChangesNothing ==
  dryRun =>
    /\ \A i \in 1..Len(calls) : calls[i].op \notin {"publish", "pin", "unpin", "putLedger"}
    /\ pinned = {timeline[i].id : i \in {j \in 1..Len(timeline) : timeline[j].kind = "summary"}}
    /\ store \in {<<>>, <<OldEntry>>}

Sleeps == {i \in 1..Len(calls) : calls[i].op = "sleep"}
IngestionOver == pc = "done" /\ ~dryRun /\ PublishCalls # {}

PageFetches == CallsOf("fetchHTML")
RECURSIVE PagesUpTo(_)
\* the articles of pages 1..n, in page order
PagesUpTo(n) == IF n = 0 THEN <<>> ELSE PagesUpTo(n - 1) \o site[n]
PageLoopOver == pc \in {"parseURL", "post", "save", "done"} /\ PageFetches # <<>>
\* the page loop ended on page n: a failed fetch or an empty page
EndedAt(n) ==
  /\ Len(PageFetches) = n
  /\ ~PageFetches[n].ok \/ site[n] = <<>>

\* C15: pages are requested in the order 1, 2, 3; when the fetch of a page
\* n > 1 fails or page n > 1 has no articles, no later page is requested, the
\* scrape reports no error, and the articles of pages 1..n-1 that are not in
\* the ledger are exactly the ones that go on to publishing.
C15_EarlyStopKeepsPartialResults ==
  /\ pc = "fetchHTML" => Len(PageFetches) = page - 1
  /\ \A k \in 1..Len(PageFetches) :
       k < Len(PageFetches) => PageFetches[k].ok /\ (k = 1 \/ site[k] # <<>>)
  /\ PageLoopOver =>
       /\ Len(PageFetches) = page
       /\ page <= MaxPages
       /\ \A n \in 2..MaxPages :
            EndedAt(n) =>
              /\ result.cause # "page1"
              /\ Len(kumaArticles) =
                   Cardinality({i \in 1..Len(PagesUpTo(n - 1)) :
                                  PagesUpTo(n - 1)[i].url \notin URLsOf(existingURLs)})
              /\ URLsOf(kumaArticles) = URLsOf(PagesUpTo(n - 1)) \ URLsOf(existingURLs)
              /\ (pc \in {"save", "done"} /\ ~dryRun /\ Sleeps # {}) =>
                   URLsOf(kumaArticles) \subseteq {calls[i].arg : i \in PublishCalls}

\* the fetch of page 2 failed, the article of page 1 was published and the
\* run succeeded
C15_Witness ==
  /\ pc = "done" /\ ~dryRun
  /\ EndedAt(2) /\ ~PageFetches[2].ok
  /\ site[1] # <<>>
  /\ URLsOf(site[1]) \subseteq {calls[i].arg : i \in PublishedCalls}
  /\ result.status = "ok"

FatalCauses == {"config", "rssConfig", "ledgerLoad", "page1"}
Failed(op) == \E i \in 1..Len(calls) : calls[i].op = op /\ ~calls[i].ok

\* C16: a configuration load failure, a ledger load failure or a fetch
\* failure of page 1 ends the invocation with an error, with no article
\* publish call and no ledger save in it; a configuration load failure comes
\* before any publish, pin, unpin or store write.
C16_FatalErrorStopsRun ==
  /\ (Failed("getRSSConfig") \/ rssConfigErr) =>
        (pc \in {"idle", "loadConfig", "loadRSSConfig"}
           \/ (pc = "done" /\ result.cause \in {"config", "rssConfig"}))
  /\ Failed("getLedger") => (pc = "done" /\ result.cause = "ledgerLoad")
  /\ (PageFetches # <<>> /\ ~PageFetches[1].ok) => (pc = "done" /\ result.cause = "page1")
  /\ (pc = "done" /\ result.cause \in FatalCauses) =>
       /\ result.status = "error"
       /\ PublishCalls = {}
       /\ ~\E i \in 1..Len(calls) : calls[i].op = "putLedger"
       /\ saved = <<>>
       /\ successfullyPosted = <<>>
  /\ (pc = "done" /\ result.cause \in {"config", "rssConfig"}) =>
       \A i \in 1..Len(calls) : calls[i].op = "getRSSConfig"

\* the ledger load failed after the summary had been published
C16_Witness ==
  /\ pc = "done"
  /\ result = [status |-> "error", cause |-> "ledgerLoad"]
  /\ ~dryRun
  /\ \E i \in 1..Len(calls) : calls[i].op = "publish" /\ calls[i].arg = "summary" /\ calls[i].ok
  /\ Failed("getLedger")

\* the links of the entries of the non-failing feeds that have a link not in
\* the ledger and pass the relevance filter
AcceptedLinks ==
  {it.link : it \in {x \in UNION {Range(input.docs[i]) :
                                    i \in (1..NumFeeds) \ input.failing} :
                       /\ x.link # ""
                       /\ x.link \notin input.existingURLMap
                       /\ isBearRelatedNews(x.title, RSSDescription(x), RuleSet)}}

\* C17: for every list of feed documents and every set of failing feeds, the
\* feed adapter returns to the run and its list holds the accepted entries
\* of all the feeds that did not fail.
C17_FailedFeedsSkipped ==
  output.done =>
    /\ ~output.value.panic
    /\ URLsOf(output.value.articles) = AcceptedLinks

\* C18: the list that the feed adapter returns holds no link twice and no
\* link of the pruned ledger, also when one link is in several entries of a
\* feed or in several feeds of the pass.
C18_FeedListUnique ==
  (output.done /\ ~output.value.panic) =>
    /\ NoDupURL(output.value.articles)
    /\ URLsOf(output.value.articles) \cap input.existingURLMap = {}
    /\ URLsOf(output.value.articles) = AcceptedLinks

\* the same link in two feeds that both answer, returned once
C18_Witness ==
  /\ output.done /\ ~output.value.panic
  /\ input.failing = {}
  /\ \A i \in 1..NumFeeds : \E k \in 1..Len(input.docs[i]) : input.docs[i][k] = ItemA
  /\ "u1" \notin input.existingURLMap
  /\ Cardinality({k \in 1..Len(output.value.articles) :
                    output.value.articles[k].url = "u1"}) = 1

\* the posts of the account created during the calendar day before the day of t
PreviousDayPosts(t) ==
  {timeline[i] : i \in {j \in 1..Len(timeline) :
                          /\ timeline[j].createdAt >= Yesterday(t)
                          /\ timeline[j].createdAt < Yesterday(t) + DayLength}}

\* C19: whenever the aggregation runs, at 00:00 or forced, the posts that it
\* tallies and counts are exactly the posts of the account created during
\* the previous calendar day.
C19_TalliesPreviousDayOnly ==
  pc = "postSummary" =>
    /\ Range(summary.toots) = PreviousDayPosts(now)
    /\ Len(summary.toots) = Cardinality(PreviousDayPosts(now))

SucceededForReal == pc = "done" /\ result.status = "ok" /\ ~dryRun
Expired(doc, t) == {i \in 1..Len(doc) : doc[i].postedAt <= t - RetentionSpan}
LedgerWrites == CallsOf("putLedger")

\* C20 as stated: every invocation that completes successfully has written
\* the ledger back, also when it found no new article, and the stored
\* document then holds no entry older than the retention window.
C20_AlwaysWrittenBack ==
  SucceededForReal =>
    /\ Len(LedgerWrites) = 1
    /\ Expired(store, pruneAt) = {}

\* C20 amended: a successful invocation outside dry run writes the ledger
\* back exactly when it found at least one new article; the stored document
\* is then the pruned survivors followed by the newly published entries and
\* holds no entry older than the retention window. When it found no new
\* article it makes no ledger write and the stored document stays as loaded.
C20_WrittenBackWhenNewArticles ==
  SucceededForReal =>
    IF Sleeps # {}
      THEN /\ Len(LedgerWrites) = 1 /\ LedgerWrites[1].ok
           /\ store = existingURLs \o successfullyPosted
           /\ Expired(store, pruneAt) = {}
      ELSE /\ LedgerWrites = <<>>
           /\ saved = <<>>
           /\ existingURLs = cleanupOldURLs(store, pruneAt)

\* a second successful run that found nothing new and wrote nothing, and a
\* first one that wrote
C20_Witness ==
  /\ SucceededForReal
  /\ prev.done /\ prev.posted > 0 /\ prev.clean
  /\ Sleeps = {}
  /\ LedgerWrites = <<>>
  /\ store # <<>>

Ascending(q) ==
  \A i, j \in 1..Len(q) : i < j => q[i].article.publishedAt <= q[j].article.publishedAt
OfType(q, isRss) == SelectSeq(q, LAMBDA x : x.isRss = isRss)

\* C21 as stated: the articles of a run are published in the order of their
\* published_at, scraped and feed-sourced articles taken together.
C21_PublishedChronologically ==
  pc = "post" => Ascending(queue)

\* C21 amended: a run publishes its scraped articles first, in published_at
\* ascending order, and then its feed-sourced articles, in published_at
\* ascending order; a feed-sourced article may be older than a scraped one
\* published before it.
C21_ChronologicalWithinEachSource ==
  pc = "post" =>
    /\ queue = OfType(queue, FALSE) \o OfType(queue, TRUE)
    /\ Ascending(OfType(queue, FALSE))
    /\ Ascending(OfType(queue, TRUE))
    /\ ~dryRun => \A i \in PublishCalls : \A k \in 1..Len(queue) :
                    queue[k].isRss \/ calls[i].arg \in URLsOf(kumaArticles)

\* a scraped article has been published and an older feed article is next
C21_Witness ==
  /\ pc = "post" /\ ~dryRun
  /\ PublishedCalls # {}
  /\ Head(queue).isRss
  /\ \E a \in Range(kumaArticles) :
       /\ a.publishedAt > Head(queue).article.publishedAt
       /\ \E i \in PublishedCalls : calls[i].arg = a.url

ReadsRuleSet ==
  /\ Len(calls') = Len(calls) + 1
  /\ calls'[Len(calls')].op = "getRSSConfig"

\* C22: the rule set is read from the blob store at most once in a process;
\* after that read no step reads it again or changes its result, and every
\* invocation that reaches the rule set observes that result: the rule set
\* when the read succeeded, the same error when it failed.
C22_RuleSetReadOnce ==
  [][/\ rssConfigOnce =>
          /\ ~ReadsRuleSet
          /\ rssConfigOnce'
          /\ rssConfig' = rssConfig
          /\ rssConfigErr' = rssConfigErr
     /\ ~rssConfigOnce => (rssConfig = NoConfig /\ ~rssConfigErr)
     /\ ReadsRuleSet => (~rssConfigOnce /\ pc = "loadRSSConfig")
     /\ (pc = "loadRSSConfig" /\ pc' # pc) =>
          /\ rssConfigOnce'
          /\ IF rssConfigErr'
               THEN pc' = "done" /\ result' = [status |-> "error", cause |-> "rssConfig"]
               ELSE rssConfig' = RuleSet /\ pc' \in {"fetchRecentToots", "loadPostedURLs"}
    ]_vars

\* a second invocation that got the rule set without reading it
C22_Witness ==
  /\ prev.done
  /\ pc = "loadPostedURLs"
  /\ rssConfigOnce /\ rssConfig = RuleSet
  /\ CallsOf("getRSSConfig") = <<>>

\* the positions in the fixed list of the names that the text contains
NamesIn(text) == {i \in 1..Len(prefectures) : Contains(text, prefectures[i])}

\* C23: region extraction returns the name declared first among the names
\* of the fixed list that are substrings of the text, wherever they occur in
\* the text, and the empty (unclassified) result when the text has none.
C23_FirstDeclaredNameWins ==
  output.done =>
    IF NamesIn(input.text) = {} THEN output.value = <<>>
    ELSE \E i \in NamesIn(input.text) :
           /\ \A j \in NamesIn(input.text) : i <= j
           /\ output.value = prefectures[i]

\* a text in which the later declared name comes first, and one in which the
\* two names overlap
C23_Witness ==
  /\ output.done
  /\ input.text \in {Kyoto \o Tokyo, <<26481>> \o Kyoto}
  /\ Contains(input.text, Kyoto)
  /\ output.value = Tokyo

Pending(doc) == {i \in 1..Len(doc) : doc[i].postedAt = ZeroTime}

\* C24: every entry that a run appends to the ledger carries posted_at, the
\* instant taken once the publish of that article had returned success, and
\* no document handed to the ledger save holds a pending record.
C24_AppendedEntriesArePosted ==
  /\ \A i \in 1..Len(successfullyPosted) :
       /\ successfullyPosted[i].postedAt # ZeroTime
       /\ successfullyPosted[i].postedAt = now
       /\ ~dryRun =>
            \E k \in PublishedCalls :
              /\ calls[k].arg = successfullyPosted[i].url
              /\ \E j \in 1..Len(timeline) :
                   /\ timeline[j].url = successfullyPosted[i].url
                   /\ timeline[j].kind # "summary"
                   /\ timeline[j].createdAt <= successfullyPosted[i].postedAt
  /\ ~dryRun => Len(successfullyPosted) = Cardinality(PublishedCalls)
  /\ \A d \in 1..Len(saved) : Pending(saved[d]) = {}
  /\ Pending(store) = {}

\* a run in which one publish failed and one succeeded, saved
C24_Witness ==
  /\ pc = "done" /\ ~dryRun
  /\ FailedCalls # {} /\ PublishedCalls # {}
  /\ saved # <<>> /\ saved[1] # <<>>
  /\ Len(successfullyPosted) = 1

\* every run saved, and every run had loaded the ledger before the first save
AllSavedOverlapping ==
  /\ Len(output.saves) = Cardinality(Runners)
  /\ output.loadedAtFirstSave = Runners
AppendedBy(r) == URLsOf(output.proc[r].successfullyPosted)

\* C25: when the runs overlap so that each loads the ledger before any of
\* them saves, the stored document after all the saves is the document of
\* the run that saved last, and a url appended only by another run is not
\* in it.
C25_LastWriterWins ==
  AllSavedOverlapping =>
    LET n == Len(output.saves)
        last == output.saves[n]
    IN /\ output.store = last.doc
       /\ \A i \in 1..(n - 1) :
            \A u \in AppendedBy(output.saves[i].by) \ AppendedBy(last.by) :
              u \notin URLsOf(output.store)

\* the first saver appended a url that the last saver did not, and it is lost
C25_Witness ==
  /\ AllSavedOverlapping
  /\ LET first == output.saves[1].by
         last == output.saves[2].by
     IN /\ AppendedBy(first) \ AppendedBy(last) # {}
        /\ AppendedBy(last) # {}
        /\ URLsOf(output.store) \cap (AppendedBy(first) \ AppendedBy(last)) = {}

\* the posts created strictly after the cutoff, in the order served
RecentPosts == SelectSeq(input.timeline, LAMBDA s : s.createdAt > input.since)
\* the page that holds position k when pages have n statuses
PageOf(k, n) == ((k - 1) \div n) + 1

\* C26: the status fetch loop terminates; it stops at the page holding the
\* first post created at or before the cutoff, or at the first empty page,
\* requests no page after it, and returns the posts created strictly after
\* the cutoff, each once, newest first.
C26_FetchLoopTerminates ==
  /\ <>(output.done)
  /\ [](output.requests <= Len(input.timeline) + 1)
  /\ [](output.done =>
          /\ output.allToots = RecentPosts
          /\ output.requests =
               IF Len(RecentPosts) < Len(input.timeline)
                 THEN PageOf(Len(RecentPosts) + 1, input.pageSize)
                 ELSE PageOf(Len(input.timeline) + input.pageSize, input.pageSize))

\* the loop went through two full pages and stopped inside the third
C26_Witness ==
  /\ output.done
  /\ output.requests = 3
  /\ Len(output.allToots) >= 2
  /\ Len(output.allToots) < Len(input.timeline)

RECURSIVE SumCounts(_)
SumCounts(lines) ==
  IF lines = <<>> THEN 0 ELSE Head(lines).count + SumCounts(Tail(lines))

\* C27: in every published summary the total of the header equals the sum of
\* the counts of the listed lines, the unclassified line included.
C27_TotalIsSumOfLines ==
  \A i \in 1..Len(timeline) :
    timeline[i].kind = "summary" => timeline[i].total = SumCounts(timeline[i].lines)

SummaryPublishFailed ==
  \E i \in 1..Len(calls) :
    calls[i].op = "publish" /\ calls[i].arg = "summary" /\ ~calls[i].ok
AggregationFailed ==
  Failed("account") \/ Failed("statuses") \/ SummaryPublishFailed
IngestionOps == {"getLedger", "fetchHTML", "parseURL", "sleep", "putLedger"}

\* C28: when the account lookup, the listing of statuses or the publication
\* of the summary fails, the invocation ends with an error and without
\* ingestion: no ledger load, no source fetch, no article publish and no
\* ledger save happen in it, and nothing is pinned or unpinned.
C28_FailedAggregationSkipsIngestion ==
  AggregationFailed =>
    /\ pc = "done"
    /\ result = [status |-> "error", cause |-> "summary"]
    /\ \A i \in 1..Len(calls) :
         calls[i].op \notin IngestionOps \cup {"pinAccount", "pinned", "pin", "unpin"}
    /\ PublishCalls = {}
    /\ saved = <<>>
    /\ successfullyPosted = <<>>
    /\ existingURLs = <<>>
    /\ kumaArticles = <<>>

\* the publication of the summary failed in a real run while the site
\* listed an article that the ledger does not hold
C28_Witness ==
  /\ pc = "done" /\ ~dryRun
  /\ SummaryPublishFailed
  /\ \E i \in 1..Len(site[1]) : site[1][i].url \notin URLsOf(store)
  /\ result.status = "error"

\* the entries of the non-failing feeds that have a link not in the ledger,
\* pass the relevance filter and carry no parsed publication timestamp
DatelessAccepted ==
  {x \in UNION {Range(input.docs[i]) : i \in (1..NumFeeds) \ input.failing} :
     /\ x.link # ""
     /\ x.link \notin input.existingURLMap
     /\ isBearRelatedNews(x.title, RSSDescription(x), RuleSet)
     /\ x.published = NoDate}

\* C29: a feed entry that is new and relevant but has no parsed publication
\* timestamp does not abort the pass: the feed adapter returns, and every
\* accepted link of the other entries is in the list that it returns.
C29_DatelessEntryDoesNotAbort ==
  (output.done /\ DatelessAccepted # {}) =>
    /\ ~output.value.panic
    /\ AcceptedLinks \ {x.link : x \in DatelessAccepted}
         \subseteq URLsOf(output.value.articles)

====
